---- MODULE Spec2Model ----
(***************************************************************************)
(* The interview session of SmartAIInterviewer: the interview page         *)
(* (InterviewPage: session-run resolver effect, timer effect / duration    *)
(* guard, transcript reconstruction, send and end handlers), its REST      *)
(* client (lib/api.ts) and the backend it talks to.  The backend is not    *)
(* part of the repository's sources; its start / messages / end /          *)
(* sessions / latest-session endpoints are modelled from spec.md           *)
(* (sections 4.1 - 4.4 and 6).                                             *)
(*                                                                         *)
(* Time is a global clock in milliseconds that advances in steps of        *)
(* MsPerTick.  Every useQuery of the page is a cache entry shared by all   *)
(* mounts of the page (data, fetching).  A request of a mutation or of     *)
(* handleEndCall is a message in `net`: a start request waits there for    *)
(* the backend (req), an accepted answer is being processed (proc), and    *)
(* every answer of the backend travels back to the page (resp).            *)
(*                                                                         *)
(* The dashboard's initializeUser effect (DashSpec) and the interview      *)
(* form StartInterviewForm (FormSpec) are followed on their own: `dash`    *)
(* and `form` do not change while the interview page is followed, and      *)
(* the page's variables do not change while they are.                      *)
(***************************************************************************)
EXTENDS Integers, Sequences, FiniteSets, Bags, TLC

\* ------------------------------------------------------------------ bounds
MaxRuns == 2
MaxAnswers == 1
MaxTicks == 2
MaxInflight == 2
MaxEntries == 2
MaxRetries == 2
MaxEffectRuns == 3
MaxMounts == 2

\* ------------------------------------------------------- program constants
DefaultDurationMinutes == 30
RUN_STARTED == "[INTERVIEW_STARTED]"
RUN_ENDED == "[SESSION_ENDED]"

\* One step of the clock: 30 minutes, in milliseconds.
MsPerTick == 30 * 60 * 1000
\* The configured durations tried (the form bounds them to 15..60).
Durations == {15, 60}
\* What a candidate can send: a typed answer, or the code editor's message.
TypedAnswer == "a"
CodeAnswer == "I have written the following python code"
\* toast.success of handleEndCall.
SummaryToast == "Interview ended. Summary generated."
EndedToast == "Interview ended"

\* What one behaviour explores (chosen in Init, never changed): how often the
\* page is entered, how many runs are started, how far the clock goes, how
\* many requests are under way at once and how many answers are taken.  Every
\* behaviour within one of these is a behaviour of the program; their union
\* is what is checked.  `prior` is the number of runs started on earlier
\* visits whose cache entries are gone, `typed` what the candidate types,
\* `retries` how often the backend retries a generation call, `legacy` that
\* the interview has a turn from before session runs (no session_run_id).
ReEntering ==
    [entries |-> MaxEntries, runs |-> MaxRuns, ticks |-> 0, inflight |-> 1, prior |-> 0,
     answers |-> MaxAnswers, typed |-> {TypedAnswer}, retries |-> 0,
     legacy |-> FALSE]
Returning ==
    [entries |-> MaxEntries, runs |-> MaxRuns, ticks |-> 0, inflight |-> 1, prior |-> 1,
     answers |-> MaxAnswers, typed |-> {TypedAnswer}, retries |-> 0,
     legacy |-> FALSE]
Resuming ==
    [entries |-> MaxEntries, runs |-> 1, ticks |-> 1, inflight |-> 1, prior |-> 0,
     answers |-> MaxAnswers, typed |-> {TypedAnswer}, retries |-> 0,
     legacy |-> FALSE]
OneVisit ==
    [entries |-> 1, runs |-> 1, ticks |-> MaxTicks, inflight |-> MaxInflight, prior |-> 0,
     answers |-> MaxAnswers, typed |-> {TypedAnswer}, retries |-> 0,
     legacy |-> FALSE]
Conversing ==
    [entries |-> 1, runs |-> 1, ticks |-> 0, inflight |-> 1, prior |-> 1,
     answers |-> MaxAnswers + 1, typed |-> {TypedAnswer}, retries |-> MaxRetries,
     legacy |-> FALSE]
Impersonating ==
    [entries |-> MaxEntries, runs |-> MaxRuns, ticks |-> 0, inflight |-> 1, prior |-> 1,
     answers |-> MaxAnswers, typed |-> {RUN_ENDED}, retries |-> 0,
     legacy |-> FALSE]
Legacy ==
    [entries |-> 1, runs |-> 1, ticks |-> 0, inflight |-> 1, prior |-> 0,
     answers |-> MaxAnswers, typed |-> {TypedAnswer}, retries |-> 0,
     legacy |-> TRUE]
Scopes == {ReEntering, Returning, Resuming, OneVisit, Conversing, Impersonating, Legacy}

VARIABLES turns, interview, now, net, latestQ, sessionsQ, interviewQ, page, hist, scope,
          form, dash

vars == <<turns, interview, now, net, latestQ, sessionsQ, interviewQ, page, hist, scope,
          form, dash>>

\* ------------------------------------------------------------- turn store
NoTurn == [id |-> 0, run |-> 0, ai |-> 0, user |-> "", feedback |-> 0, ts |-> 0]

OpeningQuestionOf(r) == 100 + r
NextQuestionOf(id) == 200 + id
SummaryOf(r) == 300 + r

\* A turn stored before session runs existed has no session_run_id (run 0).
LegacyTurn == [id |-> 1, run |-> 0, ai |-> 1, user |-> TypedAnswer, feedback |-> 0, ts |-> 0]

RunIds == {turns[i].run : i \in DOMAIN turns} \ {0}

LastRunId == IF RunIds = {} THEN 0 ELSE CHOOSE r \in RunIds : \A q \in RunIds : q <= r

SelectRun(s, r) == SelectSeq(s, LAMBDA t : t.run = r)

\* listByRun(sessionRunId): all turns of one run, oldest first.
ListByRun(r) == SelectRun(turns, r)

\* latestForInterview: the most recently appended turn across any run.
LatestForInterview == IF turns = <<>> THEN NoTurn ELSE turns[Len(turns)]

Terminated(r) == \E i \in DOMAIN turns : turns[i].run = r /\ turns[i].user = RUN_ENDED

TerminalTurn(r) == turns[CHOOSE i \in DOMAIN turns : turns[i].run = r /\ turns[i].user = RUN_ENDED]

NumAnswers == Cardinality({i \in DOMAIN turns : turns[i].user \notin {RUN_STARTED, RUN_ENDED}})

\* created_at of the run's start turn: the moment the run started.
StartedAt(r) == turns[CHOOSE i \in DOMAIN turns : turns[i].run = r /\ turns[i].user = RUN_STARTED].ts

\* The run a request without session_run_id is resolved to.
ActiveRun == IF LastRunId # 0 /\ ~Terminated(LastRunId) THEN LastRunId ELSE 0

\* created_at is kept for the turn whose created_at is read: the start turn.
Append_(r, ai, user, feedback) ==
    Append(turns, [id |-> Len(turns) + 1, run |-> r, ai |-> ai, user |-> user,
                   feedback |-> feedback, ts |-> IF user = RUN_STARTED THEN now ELSE 0])

\* ---------------------------------------------------------------- network
Msg(kind, stage, run, ok, val, text, cur) ==
    [kind |-> kind, stage |-> stage, run |-> run, ok |-> ok, val |-> val,
     text |-> text, cur |-> cur, orphan |-> FALSE, tries |-> 0]

Put(b, m) == b (+) SetToBag({m})
Take(b, m) == b (-) SetToBag({m})

Count(b, S) == BagCardinality([m \in (DOMAIN b) \cap S |-> b[m]])

\* Requests and responses under way, of all kinds / of one kind.
NumInFlight == BagCardinality(net)

InFlight(kind) == {m \in BagToSet(net) : m.kind = kind}

\* The page that issued the request is gone: its answer has nobody to go to.
Orphaned(m) == [m EXCEPT !.orphan = TRUE, !.cur = FALSE]

\* Responses not yet handled are lost with the page; requests stay under way.
OrphanAll(b) ==
    LET left == {m \in DOMAIN b : m.stage # "resp"}
    IN  [x \in {Orphaned(m) : m \in left} |-> Count(b, {m \in left : Orphaned(m) = x})]

\* mutate() on a mutation that is pending: the observer follows the new one.
Uncurrent(m) == IF m.kind = "send" THEN [m EXCEPT !.cur = FALSE] ELSE m

UncurrentAll(b) ==
    [x \in {Uncurrent(m) : m \in DOMAIN b} |-> Count(b, {m \in DOMAIN b : Uncurrent(m) = x})]

\* A response is produced only for a request whose page is still there.
Reply(b, m, r) == IF m.orphan THEN Take(b, m) ELSE Put(Take(b, m), r)

\* ------------------------------------------------------ the page's state
\* useState of InterviewPage, and isPending of its two mutations.
PageState(mounted) ==
    [mounted |-> mounted, started |-> FALSE, openingQuestion |-> 0, sessionRunId |-> 0,
     elapsedTime |-> 0, durationMinutes |-> DefaultDurationMinutes, summary |-> 0,
     userMessage |-> "",
     startPending |-> FALSE, sendPending |-> FALSE]

\* A query's cache entry: no data yet, or the data of its last successful fetch.
NoLatest == [status |-> "none", turn |-> NoTurn, fetching |-> FALSE]
NoSessions == [loaded |-> FALSE, data |-> <<>>, fetching |-> FALSE]
NoInterview == [loaded |-> FALSE, duration_minutes |-> 0, fetching |-> FALSE]

\* isLoading of the latest-session query: a first fetch is under way.
isLoadingLatest(lq) == lq.fetching /\ lq.status = "none"

\* `sessions`: the data of the query keyed by the current sessionRunId ([] without).
Sessions(p, sq) ==
    IF p.sessionRunId \in DOMAIN sq /\ sq[p.sessionRunId].loaded
    THEN sq[p.sessionRunId].data ELSE <<>>

\* The start request startInterviewMutation.mutate() sends.
StartRequest == Msg("start", "req", 0, FALSE, 0, "", TRUE)

\* The resolver effect (runs after every render): resume the latest run, or
\* start a new one.  Yields the page after it and whether mutate() was called.
MayStart(p) == ~p.started /\ ~p.startPending

Resolve(p, lq) ==
    IF ~p.mounted \/ isLoadingLatest(lq) THEN [page |-> p, mutate |-> FALSE]
    ELSE IF lq.status = "turn"
    THEN IF lq.turn.user = RUN_ENDED
         THEN IF MayStart(p)
              THEN [page |-> [p EXCEPT !.startPending = TRUE], mutate |-> TRUE]
              ELSE [page |-> p, mutate |-> FALSE]
         ELSE IF lq.turn.run # 0
              THEN [page |-> [p EXCEPT !.sessionRunId = lq.turn.run, !.started = TRUE],
                    mutate |-> FALSE]
              ELSE [page |-> p, mutate |-> FALSE]
    ELSE IF MayStart(p)
         THEN [page |-> [p EXCEPT !.startPending = TRUE], mutate |-> TRUE]
         ELSE [page |-> p, mutate |-> FALSE]

\* sessions.find(s => s.user_message === "[INTERVIEW_STARTED]")
HasStartSession(s) == \E i \in DOMAIN s : s[i].user = RUN_STARTED

StartSession(s) == s[CHOOSE i \in DOMAIN s : s[i].user = RUN_STARTED
                                             /\ \A j \in 1..(i - 1) : s[j].user # RUN_STARTED]

TimerRuns(p) == p.mounted /\ p.started /\ p.sessionRunId # 0

\* A timer that counts from the moment the page began to show it.
SecondsSincePageLoad(p, s, t, passed) == p.elapsedTime + (passed \div 1000)

\* updateTimer at clock value t, `passed` ms after the last update: elapsed
\* seconds since the run's start turn, or (without it) since the timer began.
SecondsElapsed(p, s, t, passed) ==
    IF HasStartSession(s) THEN (t - StartSession(s).ts) \div 1000
    ELSE p.elapsedTime + (passed \div 1000)

UpdateTimer(p, sq, t, passed) ==
    IF TimerRuns(p)
    THEN [p EXCEPT !.elapsedTime = SecondsElapsed(p, Sessions(p, sq), t, passed)]
    ELSE p

\* "Auto-end if time exceeded"
TimeExceeded(p) == TimerRuns(p) /\ p.elapsedTime >= p.durationMinutes * 60

\* History variable: entries = times the page was entered; runsAtEntry,
\* latestAtEntry = the runs and the latest turn's user_message the backend had
\* at the last entry; starts, guardEnds = start requests / guard-issued end
\* requests of the current mount (up to 2); endToast = the toast handleEndCall
\* showed last since the page was entered; sendError = the submitAnswer
\* response handled last was reported by toast.error("Failed to send message")
\* (kept where the backend's retries are followed).
UpTo2(n) == IF n < 2 THEN n + 1 ELSE 2

\* What follows every render of the page: the resolver effect, the duration
\* effect, the sessions query subscribing to its key, the timer effect.
Settle(raw, lq, sq, iq, nt, h) ==
    LET r == Resolve(raw, lq)
        p1 == r.page
        p2 == IF p1.mounted /\ iq.loaded
              THEN [p1 EXCEPT !.durationMinutes = iq.duration_minutes] ELSE p1
        watched == page.mounted /\ page.started /\ page.sessionRunId = p2.sessionRunId
        sq1 == IF TimerRuns(p2) /\ ~watched /\ p2.sessionRunId \in DOMAIN sq
               THEN [sq EXCEPT ![p2.sessionRunId].fetching = TRUE] ELSE sq
    IN  /\ page' = UpdateTimer(p2, sq1, now, 0)
        /\ sessionsQ' = sq1
        /\ net' = IF r.mutate THEN Put(nt, StartRequest) ELSE nt
        /\ hist' = IF r.mutate THEN [h EXCEPT !.starts = UpTo2(@)] ELSE h

\* ------------------------------------------- the dashboard and its form
\* useState of StartInterviewForm, isPending of createInterviewMutation, and
\* what its current submission has done: `sent` the duration its create or
\* update request carried, `saved` that request succeeded, `issued` / `docs`
\* / `docsOk` the document requests sent / under way / succeeded, `notified`
\* the success toast and the onSuccess callback (or navigation) happened.
FormState(shown, edit, duration) ==
    [shown |-> shown, edit |-> edit, title |-> "", durationMinutes |-> duration,
     jobDescriptionText |-> "", jobDescriptionFile |-> FALSE, cvFile |-> FALSE,
     pending |-> FALSE, saving |-> FALSE, sent |-> 0, saved |-> FALSE,
     issued |-> {}, docs |-> {}, docsOk |-> {}, notified |-> FALSE]

NoForm == FormState(FALSE, FALSE, DefaultDurationMinutes)

\* useState of Dashboard (userInitialized), localStorage's clerk_token, and
\* the runs of the initializeUser effect since the mount: isMounted of each
\* run's closure and where its initializeUser() is (awaiting getToken,
\* awaiting api.getCurrentUser, ended).  `succeeded` counts the
\* calls of /api/users/me of this mount the backend answered with success,
\* `late` the calls issued after one had succeeded, `stale` the state updates
\* made after the unmount.
DashState(mounted) ==
    [mounted |-> mounted, userInitialized |-> FALSE, clerk_token |-> "",
     mounts |-> 0, runs |-> <<>>, succeeded |-> 0, late |-> 0, stale |-> 0]

\* ------------------------------------------------------------------- Init
InitIn(scopes) ==
    /\ scope \in scopes
    /\ turns = IF scope.legacy THEN <<LegacyTurn>>
               ELSE IF scope.prior = 0 THEN <<>>
               ELSE <<[id |-> 1, run |-> 1, ai |-> OpeningQuestionOf(1), user |-> RUN_STARTED,
                       feedback |-> 0, ts |-> 0]>>
    /\ interview \in [duration_minutes : IF scope.ticks = 0 THEN {DefaultDurationMinutes}
                                         ELSE Durations]
    /\ now = 0
    /\ net = EmptyBag
    /\ latestQ = NoLatest
    /\ sessionsQ = [r \in 1..MaxRuns |-> NoSessions]
    /\ interviewQ = NoInterview
    /\ page = PageState(FALSE)
    /\ hist = [entries |-> 0, runsAtEntry |-> {}, latestAtEntry |-> "", starts |-> 0,
               guardEnds |-> 0, endToast |-> "", sendError |-> FALSE]
    /\ form = NoForm
    /\ dash = DashState(FALSE)

Init == InitIn(Scopes)

\* ------------------------------------------------------- entering, leaving
\* The route renders InterviewPage: fresh state, the latest-session and the
\* interview queries fetch (cached data, if any, is used meanwhile).
Mount ==
    /\ ~page.mounted
    /\ hist.entries < scope.entries
    /\ latestQ' = [latestQ EXCEPT !.fetching = TRUE]
    /\ interviewQ' = [interviewQ EXCEPT !.fetching = TRUE]
    /\ Settle(PageState(TRUE), latestQ', sessionsQ, interviewQ', net,
              [hist EXCEPT !.entries = @ + 1, !.runsAtEntry = RunIds,
                           !.latestAtEntry = LatestForInterview.user,
                           !.starts = 0, !.guardEnds = 0, !.endToast = "",
                           !.sendError = FALSE])
    /\ UNCHANGED <<turns, interview, now, scope, form, dash>>

\* navigate("/dashboard"), or the user leaving: the component's state is gone,
\* requests already sent are still served by the backend, fetches under way
\* end without an answer.
Leave(nt, h) ==
    /\ page' = PageState(FALSE)
    /\ net' = OrphanAll(nt)
    /\ hist' = h
    /\ latestQ' = [latestQ EXCEPT !.fetching = FALSE]
    /\ interviewQ' = [interviewQ EXCEPT !.fetching = FALSE]
    /\ sessionsQ' = [r \in DOMAIN sessionsQ |-> [sessionsQ[r] EXCEPT !.fetching = FALSE]]
    /\ UNCHANGED <<turns, interview, now, scope, form, dash>>

Unmount ==
    /\ page.mounted
    /\ Leave(net, hist)

\* An unobserved query's cache entry is garbage-collected.
CacheGC ==
    /\ ~page.mounted
    /\ \/ latestQ.status # "none" \/ interviewQ.loaded
       \/ \E r \in DOMAIN sessionsQ : sessionsQ[r].loaded
    /\ latestQ' = NoLatest
    /\ interviewQ' = NoInterview
    /\ sessionsQ' = [r \in DOMAIN sessionsQ |-> NoSessions]
    /\ UNCHANGED <<turns, interview, now, net, page, hist, scope, form, dash>>

\* ------------------------------------------------------------ the backend
\* POST /start: a new run and its opening turn, both or (generation failed) neither.
ServerStart(m) ==
    /\ m.kind = "start" /\ m.stage = "req"
    /\ \/ /\ Cardinality(RunIds) < scope.runs
          /\ LET r == LastRunId + 1
             IN  /\ turns' = Append_(r, OpeningQuestionOf(r), RUN_STARTED, 0)
                 /\ net' = Reply(net, m, [m EXCEPT !.stage = "resp", !.ok = TRUE, !.run = r,
                                                   !.val = OpeningQuestionOf(r)])
       \/ /\ net' = Reply(net, m, [m EXCEPT !.stage = "resp", !.ok = FALSE])
          /\ UNCHANGED turns
    /\ UNCHANGED <<interview, now, latestQ, sessionsQ, interviewQ, page, hist, scope, form, dash>>

\* The run a request names, or the most recent one.
TargetRun(m) == IF m.run # 0 THEN m.run ELSE LastRunId

\* A turn store that takes turns on a run that has its terminal turn.
AppendableAfterEnd(r) == r # 0 /\ r = LastRunId

\* A turn store in which a run stays open when a newer run is started.
AppendableSuperseded(r) == r # 0 /\ ~Terminated(r)

\* Only the interview's latest run, while it has no terminal turn, takes turns.
Appendable(r) == r # 0 /\ r = LastRunId /\ ~Terminated(r)

\* AWAITING_SYSTEM: the runs with an accepted answer and no system turn yet.
busy == {m.run : m \in {x \in BagToSet(net) : x.kind = "send" /\ x.stage = "proc"}}

\* POST /messages arrives: accepted (AWAITING_CANDIDATE -> AWAITING_SYSTEM) or
\* rejected (RunTerminatedError, OutOfTurnError, NotFoundError).
BeginSend(m) ==
    LET r == TargetRun(m)
    IN  IF Appendable(r) /\ r \notin busy
        THEN [m EXCEPT !.stage = "proc", !.run = r]
        ELSE [m EXCEPT !.stage = "resp", !.ok = FALSE]

\* POST /messages, generation done: the turn pairing the answer with the next
\* question is appended; or generation failed / the run ended meanwhile.
ServerFinishSend(m) ==
    /\ m.kind = "send" /\ m.stage = "proc"
    /\ \/ /\ Appendable(m.run)
          /\ NumAnswers < scope.answers
          /\ turns' = Append_(m.run, NextQuestionOf(Len(turns) + 1), m.text, 0)
          /\ net' = Reply(net, m, [m EXCEPT !.stage = "resp", !.ok = TRUE,
                                            !.val = NextQuestionOf(Len(turns) + 1)])
       \/ /\ net' = Reply(net, m, [m EXCEPT !.stage = "resp", !.ok = FALSE])
          /\ UNCHANGED turns
    /\ UNCHANGED <<interview, now, latestQ, sessionsQ, interviewQ, page, hist, scope, form, dash>>

\* A generation call that is retried once more than the policy allows.
ServerRetryOnceMore(m) ==
    /\ m.kind = "send" /\ m.stage = "proc"
    /\ m.tries < scope.retries + 1
    /\ net' = Put(Take(net, m), [m EXCEPT !.tries = @ + 1])
    /\ UNCHANGED <<turns, interview, now, latestQ, sessionsQ, interviewQ, page, hist, scope, form, dash>>

\* POST /messages, generation met a transient upstream error (429, 503):
\* the call is made again, a bounded number of times.
ServerRetry(m) ==
    /\ m.kind = "send" /\ m.stage = "proc"
    /\ m.tries < scope.retries
    /\ net' = Put(Take(net, m), [m EXCEPT !.tries = @ + 1])
    /\ UNCHANGED <<turns, interview, now, latestQ, sessionsQ, interviewQ, page, hist, scope, form, dash>>

\* The run an end request names, or the interview's current active run.
EndTarget(m) == IF m.run # 0 THEN m.run ELSE ActiveRun

\* endRun without the no-op on an ended run: it appends a terminal turn every time.
EndRunAgain(m, r, s) ==
    /\ turns' = Append_(r, 0, RUN_ENDED, s)
    /\ net' = Put(net, [m EXCEPT !.stage = "resp", !.ok = TRUE, !.run = r, !.val = s])

\* endRun: the terminal turn with an optional (best-effort) summary; on an
\* ended run a no-op returning the existing summary.
EndRun(m, r, s) ==
    IF Terminated(r)
    THEN /\ net' = Put(net, [m EXCEPT !.stage = "resp", !.ok = TRUE, !.run = r,
                                      !.val = TerminalTurn(r).feedback])
         /\ UNCHANGED turns
    ELSE /\ turns' = Append_(r, 0, RUN_ENDED, s)
         /\ net' = Put(net, [m EXCEPT !.stage = "resp", !.ok = TRUE, !.run = r, !.val = s])

\* POST /end arrives: endRun on the run it names, or an error.
ServerEnd(m) ==
    LET r == EndTarget(m)
    IN  \/ /\ r # 0 /\ (Terminated(r) \/ r = LastRunId)
           /\ \E s \in {0, SummaryOf(r)} : EndRun(m, r, s)
        \/ /\ net' = Put(net, [m EXCEPT !.stage = "resp", !.ok = FALSE])
           /\ UNCHANGED turns

\* ---------------------------------------------------------------- queries
\* GET /latest-session answers.
LatestArrive ==
    /\ latestQ.fetching
    /\ latestQ' = [status |-> IF turns = <<>> THEN "null" ELSE "turn",
                   turn |-> LatestForInterview, fetching |-> FALSE]
    /\ Settle(page, latestQ', sessionsQ, interviewQ, net, hist)
    /\ UNCHANGED <<turns, interview, now, interviewQ, scope, form, dash>>

\* GET /latest-session fails ("Failed to fetch latest session").
LatestFail ==
    /\ latestQ.fetching
    /\ latestQ' = [latestQ EXCEPT !.fetching = FALSE]
    /\ Settle(page, latestQ', sessionsQ, interviewQ, net, hist)
    /\ UNCHANGED <<turns, interview, now, interviewQ, scope, form, dash>>

\* GET /sessions?session_run_id=r answers.
SessionsArrive(r) ==
    /\ sessionsQ[r].fetching
    /\ Settle(page, latestQ,
              [sessionsQ EXCEPT ![r] = [loaded |-> TRUE, data |-> ListByRun(r),
                                        fetching |-> FALSE]],
              interviewQ, net, hist)
    /\ UNCHANGED <<turns, interview, now, latestQ, interviewQ, scope, form, dash>>

\* GET /interviews/{id} answers.
InterviewArrive ==
    /\ interviewQ.fetching
    /\ interviewQ' = [loaded |-> TRUE, duration_minutes |-> interview.duration_minutes,
                      fetching |-> FALSE]
    /\ Settle(page, latestQ, sessionsQ, interviewQ', net, hist)
    /\ UNCHANGED <<turns, interview, now, latestQ, scope, form, dash>>

\* ------------------------------------------------------ the page's handlers
\* startInterviewMutation adopting whatever the answer holds, also on an error.
ReceiveStartAdopts(m) ==
    /\ m.kind = "start" /\ m.stage = "resp"
    /\ Settle([page EXCEPT !.openingQuestion = m.val, !.sessionRunId = m.run,
                           !.started = TRUE, !.startPending = FALSE],
              latestQ, sessionsQ, interviewQ, Take(net, m), hist)
    /\ UNCHANGED <<turns, interview, now, latestQ, interviewQ, scope, form, dash>>

\* startInterviewMutation: onSuccess adopts the run, onError only reports.
ReceiveStart(m) ==
    /\ m.kind = "start" /\ m.stage = "resp"
    /\ Settle(IF m.ok
              THEN [page EXCEPT !.openingQuestion = m.val, !.sessionRunId = m.run,
                                !.started = TRUE, !.startPending = FALSE]
              ELSE [page EXCEPT !.startPending = FALSE],
              latestQ, sessionsQ, interviewQ, Take(net, m), hist)
    /\ UNCHANGED <<turns, interview, now, latestQ, interviewQ, scope, form, dash>>

\* The chat and the control bar are rendered: no summary screen.  (The code
\* editor replaces the chat form only between onToggleCode and its submit.)
ChatShown == page.mounted /\ page.summary = 0

\* The answer input (disabled unless started and no send is pending).
TypeAnswer ==
    /\ ChatShown /\ page.started /\ ~page.sendPending
    /\ page.userMessage = ""
    /\ \E text \in scope.typed : page' = [page EXCEPT !.userMessage = text]
    /\ UNCHANGED <<turns, interview, now, net, latestQ, sessionsQ, interviewQ, hist, scope, form, dash>>

\* api.sendMessage(interviewId, message, token, sessionRunId)
SendRequest(text) == Msg("send", "req", page.sessionRunId, FALSE, 0, text, TRUE)

handleSendMessage ==
    /\ ChatShown
    /\ ~(page.userMessage = "" \/ page.sendPending)
    /\ NumInFlight < scope.inflight
    /\ page' = [page EXCEPT !.sendPending = TRUE]
    /\ net' = Put(UncurrentAll(net), BeginSend(SendRequest(page.userMessage)))
    /\ UNCHANGED <<turns, interview, now, latestQ, sessionsQ, interviewQ, hist, scope, form, dash>>

\* onToggleCode, then the code editor's "Run & Submit": no check of started
\* or of a pending send; the editor closes (setIsCodeOpen(false)).
handleCodeSubmit ==
    /\ ChatShown
    /\ NumInFlight < scope.inflight
    /\ page' = [page EXCEPT !.sendPending = TRUE]
    /\ net' = Put(UncurrentAll(net), BeginSend(SendRequest(CodeAnswer)))
    /\ UNCHANGED <<turns, interview, now, latestQ, sessionsQ, interviewQ, hist, scope, form, dash>>

\* sendMessageMutation: onSuccess clears the input and invalidates the run's
\* history (an observed query refetches); onError only reports.
ReceiveSend(m) ==
    /\ m.kind = "send" /\ m.stage = "resp"
    /\ LET p1 == IF m.cur THEN [page EXCEPT !.sendPending = FALSE] ELSE page
           p2 == IF m.ok THEN [p1 EXCEPT !.userMessage = ""] ELSE p1
           sq == IF m.ok /\ TimerRuns(page) /\ page.sessionRunId \in DOMAIN sessionsQ
                 THEN [sessionsQ EXCEPT ![page.sessionRunId].fetching = TRUE]
                 ELSE sessionsQ
       IN  Settle(p2, latestQ, sq, interviewQ, Take(net, m),
                  [hist EXCEPT !.sendError = ~m.ok /\ scope.retries > 0])
    /\ UNCHANGED <<turns, interview, now, latestQ, interviewQ, scope, form, dash>>

\* api.endInterview(interviewId, token, sessionRunId)
EndRequest == Msg("end", "req", page.sessionRunId, FALSE, 0, "", FALSE)

\* handleEndCall, called from ControlBar's end button.
onEndCall ==
    /\ ChatShown
    /\ NumInFlight < scope.inflight
    /\ ServerEnd(EndRequest)
    /\ UNCHANGED <<interview, now, latestQ, sessionsQ, interviewQ, page, hist, scope, form, dash>>

\* A guard that waits for the candidate: it acts only while no answer is
\* under way and the input is empty.
GuardFireWhenIdle ==
    /\ TimeExceeded(page)
    /\ ~page.sendPending /\ page.userMessage = ""
    /\ InFlight("end") = {}
    /\ ServerEnd(EndRequest)
    /\ hist' = [hist EXCEPT !.guardEnds = UpTo2(@)]
    /\ UNCHANGED <<interview, now, latestQ, sessionsQ, interviewQ, page, scope, form, dash>>

\* handleEndCall, called from updateTimer (every second while it holds;
\* followed here while no end request is under way).
GuardFire ==
    /\ TimeExceeded(page)
    /\ InFlight("end") = {}
    /\ ServerEnd(EndRequest)
    /\ hist' = [hist EXCEPT !.guardEnds = UpTo2(@)]
    /\ UNCHANGED <<interview, now, latestQ, sessionsQ, interviewQ, page, scope, form, dash>>

\* handleEndCall without its navigate("/dashboard"): the page stays as it is
\* unless a summary came.
ReceiveEndStays(m) ==
    /\ m.kind = "end" /\ m.stage = "resp"
    /\ Settle(IF m.ok /\ m.val # 0 THEN [page EXCEPT !.summary = m.val] ELSE page,
              latestQ, sessionsQ, interviewQ, Take(net, m),
              IF m.ok THEN [hist EXCEPT !.endToast = IF m.val # 0 THEN SummaryToast
                                                      ELSE EndedToast]
              ELSE hist)
    /\ UNCHANGED <<turns, interview, now, latestQ, interviewQ, scope, form, dash>>

\* handleEndCall taking a missing summary for a failure: back to the dashboard
\* through the catch branch, without the toast.
ReceiveEndNeedsSummary(m) ==
    /\ m.kind = "end" /\ m.stage = "resp"
    /\ IF m.ok /\ m.val # 0
       THEN /\ Settle([page EXCEPT !.summary = m.val], latestQ, sessionsQ, interviewQ,
                      Take(net, m), [hist EXCEPT !.endToast = SummaryToast])
            /\ UNCHANGED <<turns, interview, now, latestQ, interviewQ, scope, form, dash>>
       ELSE Leave(Take(net, m), hist)

\* handleEndCall whose catch branch only logs: after a failed end request
\* the page stays as it is.
ReceiveEndFailureStays(m) ==
    /\ m.kind = "end" /\ m.stage = "resp"
    /\ IF m.ok /\ m.val # 0
       THEN /\ Settle([page EXCEPT !.summary = m.val], latestQ, sessionsQ, interviewQ,
                      Take(net, m), [hist EXCEPT !.endToast = SummaryToast])
            /\ UNCHANGED <<turns, interview, now, latestQ, interviewQ, scope, form, dash>>
       ELSE IF m.ok
       THEN Leave(Take(net, m), [hist EXCEPT !.endToast = EndedToast])
       ELSE /\ Settle(page, latestQ, sessionsQ, interviewQ, Take(net, m), hist)
            /\ UNCHANGED <<turns, interview, now, latestQ, interviewQ, scope, form, dash>>

\* handleEndCall after the await: the summary screen, or back to the dashboard.
ReceiveEnd(m) ==
    /\ m.kind = "end" /\ m.stage = "resp"
    /\ IF m.ok /\ m.val # 0
       THEN /\ Settle([page EXCEPT !.summary = m.val], latestQ, sessionsQ, interviewQ,
                      Take(net, m), [hist EXCEPT !.endToast = SummaryToast])
            /\ UNCHANGED <<turns, interview, now, latestQ, interviewQ, scope, form, dash>>
       ELSE Leave(Take(net, m), IF m.ok THEN [hist EXCEPT !.endToast = EndedToast] ELSE hist)

\* Time passes; a running timer shows it.
Tick ==
    /\ now < scope.ticks * MsPerTick
    /\ now' = now + MsPerTick
    /\ page' = UpdateTimer(page, sessionsQ, now', MsPerTick)
    /\ UNCHANGED <<turns, interview, net, latestQ, sessionsQ, interviewQ, hist, scope, form, dash>>

\* ------------------------------------------------------------ transcript
\* "Convert sessions to messages": `messages` as the page renders them.
isOpeningQuestionInSessions(p, s) ==
    \E i \in DOMAIN s : s[i].user = RUN_STARTED /\ s[i].ai = p.openingQuestion

Message(id, part, role, content) ==
    [id |-> id, part |-> part, role |-> role, content |-> content]

\* A transcript that shows the start response's question whatever the history holds.
OpeningMessageAlways(p, s) ==
    IF p.openingQuestion # 0
    THEN <<Message(0, "opening", "ai", <<p.openingQuestion>>)>>
    ELSE <<>>

OpeningMessage(p, s) ==
    IF p.openingQuestion # 0 /\ Len(s) = 0 /\ ~isOpeningQuestionInSessions(p, s)
    THEN <<Message(0, "opening", "ai", <<p.openingQuestion>>)>>
    ELSE <<>>

\* The order of the page's earlier version: the AI message, then the user's.
SessionMessagesAiFirst(session) ==
    IF session.user = RUN_STARTED
    THEN <<Message(session.id, "", "ai", <<session.ai>>)>>
    ELSE <<Message(session.id, "", "ai", <<session.ai>>),
           Message(session.id, "-user", "user", session.user)>>

SessionMessages(session) ==
    IF session.user = RUN_STARTED
    THEN <<Message(session.id, "", "ai", <<session.ai>>)>>
    ELSE <<Message(session.id, "-user", "user", session.user),
           Message(session.id, "", "ai", <<session.ai>>)>>

RECURSIVE ForEach(_)
ForEach(s) == IF s = <<>> THEN <<>> ELSE SessionMessages(Head(s)) \o ForEach(Tail(s))

Messages(p, s) == OpeningMessage(p, s) \o ForEach(s)

messages == Messages(page, Sessions(page, sessionsQ))

\* ------------------------------------------------------------------- Next
Server == \E m \in BagToSet(net) : ServerStart(m) \/ ServerFinishSend(m) \/ ServerRetry(m)

Receive == \E m \in BagToSet(net) : ReceiveStart(m) \/ ReceiveSend(m) \/ ReceiveEnd(m)

Fetch == \/ LatestArrive \/ LatestFail
         \/ InterviewArrive
         \/ \E r \in DOMAIN sessionsQ : SessionsArrive(r)

User == \/ Mount \/ Unmount
        \/ TypeAnswer \/ handleSendMessage
        \/ handleCodeSubmit
        \/ onEndCall

Next == Server \/ Receive \/ Fetch \/ User \/ GuardFire \/ CacheGC \/ Tick

Spec == Init /\ [][Next]_vars

\* The timer's interval fires while it is due, and an answer of the backend
\* to an end request reaches handleEndCall.
Fairness ==
    /\ WF_vars(GuardFire)
    /\ WF_vars(\E m \in BagToSet(net) : ReceiveEnd(m))

LiveSpec == InitIn({Resuming}) /\ [][Next]_vars /\ Fairness

\* ---------------------------------------------------- StartInterviewForm
\* The duration input: type="number" min="15" max="60".
MinDuration == 15
MaxDuration == 60
\* parseInt(e.target.value) || 30, and useState(... || 30)
DurationFallback == 30

\* What can be in the duration field after an edit (e.target.value, as
\* characters), in the title field and in the job-description textarea.
DurationEntries ==
    {<<>>, <<"0">>, <<"5">>, <<"1", "5">>, <<"4", "5">>, <<"6", "0">>, <<"6", "1">>,
     <<"-", "5">>, <<"2", "0", ".", "5">>, <<"1", "e", "2">>}
TitleEntries == {"", " ", "t"}
TextEntries == {"", "jd"}

pageVars == <<turns, now, net, latestQ, sessionsQ, interviewQ, page, hist, scope>>

\* parseInt: an optional sign, then the leading decimal digits; NaN without.
Digits == <<"0", "1", "2", "3", "4", "5", "6", "7", "8", "9">>
IsDigit(c) == \E d \in DOMAIN Digits : Digits[d] = c
DigitOf(c) == (CHOOSE d \in DOMAIN Digits : Digits[d] = c) - 1
NaN == [nan |-> TRUE, n |-> 0]

RECURSIVE LeadingDigits(_, _)
LeadingDigits(s, acc) ==
    IF s = <<>> \/ ~IsDigit(Head(s)) THEN acc
    ELSE LeadingDigits(Tail(s), acc * 10 + DigitOf(Head(s)))

parseInt(s) ==
    LET signed == s # <<>> /\ Head(s) \in {"-", "+"}
        body == IF signed THEN Tail(s) ELSE s
        n == LeadingDigits(body, 0)
    IN  IF body = <<>> \/ ~IsDigit(Head(body)) THEN NaN
        ELSE [nan |-> FALSE, n |-> IF signed /\ Head(s) = "-" THEN 0 - n ELSE n]

\* x || 30 : NaN and 0 are falsy.
OrFallback(x) == IF x.nan \/ x.n = 0 THEN DurationFallback ELSE x.n

\* title.trim()
Trim(t) == IF t = " " THEN "" ELSE t

\* Dashboard: the "Start New Interview" button (create) or handleEditClick
\* (edit) renders the form; one form's submission is followed at a time.
OpenForm ==
    /\ ~form.shown /\ ~form.pending
    /\ \E edit \in BOOLEAN :
          form' = IF edit
                  THEN [FormState(TRUE, TRUE,
                                  IF interview.duration_minutes = 0 THEN DurationFallback
                                  ELSE interview.duration_minutes)
                        EXCEPT !.title = "t"]
                  ELSE FormState(TRUE, FALSE, DurationFallback)
    /\ UNCHANGED <<interview, pageVars, dash>>

\* onCancel: the dashboard hides the form; a submission under way goes on.
CancelForm ==
    /\ form.shown
    /\ form' = [form EXCEPT !.shown = FALSE]
    /\ UNCHANGED <<interview, pageVars, dash>>

setTitle ==
    /\ form.shown
    /\ \E t \in TitleEntries : form' = [form EXCEPT !.title = t]
    /\ UNCHANGED <<interview, pageVars, dash>>

\* onChange of the duration input
DurationChange ==
    /\ form.shown
    /\ \E v \in DurationEntries :
          form' = [form EXCEPT !.durationMinutes = OrFallback(parseInt(v))]
    /\ UNCHANGED <<interview, pageVars, dash>>

\* A file change handler that leaves the pasted text as it is.
FileChangeKeepsText(isPdf) ==
    /\ form.shown
    /\ form' = IF isPdf THEN [form EXCEPT !.jobDescriptionFile = TRUE] ELSE form
    /\ UNCHANGED <<interview, pageVars, dash>>

handleJobDescriptionFileChange(isPdf) ==
    /\ form.shown
    /\ form' = IF isPdf
               THEN [form EXCEPT !.jobDescriptionFile = TRUE, !.jobDescriptionText = ""]
               ELSE form
    /\ UNCHANGED <<interview, pageVars, dash>>

removeJobDescriptionFile ==
    /\ form.shown /\ form.jobDescriptionFile
    /\ form' = [form EXCEPT !.jobDescriptionFile = FALSE]
    /\ UNCHANGED <<interview, pageVars, dash>>

\* onChange of the textarea (disabled while a file is selected)
JobDescriptionTextChange ==
    /\ form.shown /\ ~form.jobDescriptionFile
    /\ \E v \in TextEntries :
          form' = [form EXCEPT !.jobDescriptionText = v,
                               !.jobDescriptionFile = IF v # "" THEN FALSE ELSE @]
    /\ UNCHANGED <<interview, pageVars, dash>>

handleCVFileChange(isPdf) ==
    /\ form.shown
    /\ form' = IF isPdf THEN [form EXCEPT !.cvFile = TRUE] ELSE form
    /\ UNCHANGED <<interview, pageVars, dash>>

removeCVFile ==
    /\ form.shown /\ form.cvFile
    /\ form' = [form EXCEPT !.cvFile = FALSE]
    /\ UNCHANGED <<interview, pageVars, dash>>

\* The Reset button (create mode)
ResetForm ==
    /\ form.shown /\ ~form.edit
    /\ form' = [form EXCEPT !.title = "", !.durationMinutes = DurationFallback,
                            !.jobDescriptionText = "", !.jobDescriptionFile = FALSE,
                            !.cvFile = FALSE]
    /\ UNCHANGED <<interview, pageVars, dash>>

\* A browser that does not check min and max of the duration input.
checkValidityNoRange(f) == f.title # ""

\* The browser's constraint validation before the submit event: the title is
\* required, the duration input's value is within min and max.
checkValidity(f) ==
    /\ f.title # ""
    /\ MinDuration <= f.durationMinutes /\ f.durationMinutes <= MaxDuration

\* The submit button (disabled while the mutation is pending), handleSubmit,
\* and mutationFn: api.updateInterview / api.createInterview
handleSubmit ==
    /\ form.shown /\ ~form.pending
    /\ checkValidity(form)
    /\ Trim(form.title) # ""
    /\ form' = [form EXCEPT !.pending = TRUE, !.saving = TRUE, !.sent = form.durationMinutes,
                            !.saved = FALSE, !.issued = {}, !.docs = {}, !.docsOk = {},
                            !.notified = FALSE]
    /\ UNCHANGED <<interview, pageVars, dash>>

\* The document requests onSuccess pushes to uploadPromises.
Uploads(f) ==
    (IF f.jobDescriptionText # "" /\ ~f.jobDescriptionFile THEN {"jd-text"}
     ELSE IF f.jobDescriptionFile THEN {"jd-file"} ELSE {})
    \cup (IF f.cvFile THEN {"cv"} ELSE {})

\* toast.success, then onSuccess(interviewId): the dashboard hides the form.
Notified(f) == [f EXCEPT !.pending = FALSE, !.notified = TRUE, !.shown = FALSE]

\* An onSuccess that does not wait for the document requests.
SaveSucceedsEarly ==
    /\ interview' = [interview EXCEPT !.duration_minutes = form.sent]
    /\ form' = [Notified(form) EXCEPT !.saving = FALSE, !.saved = TRUE,
                                      !.issued = Uploads(form), !.docs = Uploads(form)]

\* The create / update request succeeded: onSuccess up to its await.
SaveSucceeds ==
    /\ interview' = [interview EXCEPT !.duration_minutes = form.sent]
    /\ LET f == [form EXCEPT !.saving = FALSE, !.saved = TRUE,
                             !.issued = Uploads(form), !.docs = Uploads(form)]
       IN  form' = IF Uploads(form) = {} THEN Notified(f) ELSE f

\* The create / update request is answered; on a failure onError reports.
SaveArrive ==
    /\ form.saving
    /\ \/ SaveSucceeds
       \/ /\ form' = [form EXCEPT !.saving = FALSE, !.pending = FALSE]
          /\ UNCHANGED interview
    /\ UNCHANGED <<pageVars, dash>>

\* A document request is answered: Promise.all resolves with the last
\* success, and rejects with the first failure (onSuccess throws).
DocArrive ==
    /\ \E d \in form.docs :
          \/ LET f == [form EXCEPT !.docs = @ \ {d}, !.docsOk = @ \cup {d}]
             IN  form' = IF f.docs = {} THEN Notified(f) ELSE f
          \/ form' = [form EXCEPT !.docs = {}, !.pending = FALSE]
    /\ UNCHANGED <<interview, pageVars, dash>>

FormEdit ==
    \/ setTitle \/ DurationChange \/ JobDescriptionTextChange
    \/ \E isPdf \in BOOLEAN : handleJobDescriptionFileChange(isPdf)
    \/ \E isPdf \in BOOLEAN : handleCVFileChange(isPdf)
    \/ removeJobDescriptionFile \/ removeCVFile \/ ResetForm

FormNext == OpenForm \/ CancelForm \/ FormEdit \/ handleSubmit \/ SaveArrive \/ DocArrive

FormSpec == InitIn({OneVisit}) /\ [][FormNext]_vars

\* -------------------------------------------------------------- Dashboard
\* What getToken() of Clerk resolves to: no token, or a token.
Tokens == {"", "tok"}

\* The effect's cleanup: isMounted = false in the closure of the last run.
Cleanup(runs) == [i \in DOMAIN runs |-> [runs[i] EXCEPT !.alive = FALSE]]

\* The effect's body: initializeUser() goes on to await getToken() unless
\* the user is initialized already.
RunEffect(d) ==
    IF d.userInitialized THEN d
    ELSE [d EXCEPT !.runs = Append(@, [mount |-> d.mounts, alive |-> TRUE, at |-> "token"])]

\* The dashboard route renders: fresh state, the effect runs.
DashMount ==
    /\ ~dash.mounted /\ dash.mounts < MaxMounts /\ Len(dash.runs) < MaxEffectRuns
    /\ dash' = RunEffect([dash EXCEPT !.mounted = TRUE, !.userInitialized = FALSE,
                                      !.mounts = @ + 1, !.succeeded = 0, !.late = 0])
    /\ UNCHANGED <<interview, pageVars, form>>

DashUnmount ==
    /\ dash.mounted
    /\ dash' = [dash EXCEPT !.mounted = FALSE, !.runs = Cleanup(@)]
    /\ UNCHANGED <<interview, pageVars, form>>

\* useAuth() hands out another getToken: the effect's dependency changed,
\* its cleanup and its body run again.
GetTokenChanges ==
    /\ dash.mounted /\ Len(dash.runs) < MaxEffectRuns
    /\ dash' = RunEffect([dash EXCEPT !.runs = Cleanup(@)])
    /\ UNCHANGED <<interview, pageVars, form>>

\* await getToken() is over: with a token and isMounted, the token is
\* stored and /api/users/me is called; a rejection is caught.
TokenArrive(i) ==
    /\ dash.runs[i].at = "token"
    /\ \/ \E token \in Tokens :
             dash' = IF token # "" /\ dash.runs[i].alive
                     THEN [dash EXCEPT !.clerk_token = token, !.runs[i].at = "call",
                                       !.late = IF dash.runs[i].mount = dash.mounts
                                                   /\ dash.succeeded > 0
                                                THEN 1 ELSE @]
                     ELSE [dash EXCEPT !.runs[i].at = "end"]
       \/ dash' = [dash EXCEPT !.runs[i].at = "end"]
    /\ UNCHANGED <<interview, pageVars, form>>

\* await api.getCurrentUser(token) is over: with isMounted,
\* setUserInitialized(true), which runs the effect again; an error is caught.
UserArrive(i) ==
    /\ dash.runs[i].at = "call"
    /\ \/ LET d == [dash EXCEPT !.runs[i].at = "end",
                                !.succeeded = IF dash.runs[i].mount = dash.mounts
                                              THEN @ + 1 ELSE @]
          IN  dash' = IF dash.runs[i].alive
                      THEN RunEffect([d EXCEPT !.userInitialized = TRUE,
                                               !.runs = Cleanup(@),
                                               !.stale = IF d.mounted THEN @ ELSE 1])
                      ELSE d
       \/ dash' = [dash EXCEPT !.runs[i].at = "end"]
    /\ UNCHANGED <<interview, pageVars, form>>

initializeUser == \E i \in DOMAIN dash.runs : TokenArrive(i) \/ UserArrive(i)

DashNext == DashMount \/ DashUnmount \/ GetTokenChanges \/ initializeUser

DashSpec == InitIn({OneVisit}) /\ [][DashNext]_vars

\* ----------------------------------------------------------------- claims
\* A start request is issued in this step.
StartIssued == CopiesIn(StartRequest, net') > CopiesIn(StartRequest, net)

\* C1: whenever the interview's latest turn is not RUN_ENDED (the interview
\* has turns, the last of them is an opening or an answer turn), the page
\* resumes that run: it issues no start request, so no new run is created
\* and no new opening question is requested.
C1_ResumesOpenRun == [][StartIssued => LatestForInterview.user \in {"", RUN_ENDED}]_vars

\* C2: entering an interview that has no turn issues exactly one start
\* request, however often the resolver effect re-runs while the request is
\* pending or after it completed: never a second one during that visit.
C2_OneStartRequest == (page.mounted /\ hist.runsAtEntry = {}) => hist.starts <= 1

\* The page's answer requests that have no response handled yet.
SubmitsInFlight == {m \in InFlight("send") : ~m.orphan}

\* C3: at most one submitAnswer of the page is in flight: while one answer
\* (typed or code) is under way, another submission is not sent.
C3_OneSubmitInFlight == Count(net, SubmitsInFlight) <= 1

\* The duration guard calls handleEndCall in this step.
GuardEnds == hist'.guardEnds > hist.guardEnds

\* C4: the duration guard never ends a run before its start time plus the
\* interview's configured duration, in whatever order the interview and the
\* run history are fetched.
C4_NotBeforeDeadline ==
    [][GuardEnds => now >= StartedAt(page.sessionRunId)
                           + interview.duration_minutes * 60 * 1000]_vars

\* The elapsed time the page shows has reached the configured duration.
Overdue == ChatShown /\ TimerRuns(page)
           /\ page.elapsedTime >= interview.duration_minutes * 60

\* The summary screen is shown, or the page was left for the dashboard.
Surfaced == ~page.mounted \/ page.summary # 0

\* C5: once the elapsed time reaches the configured duration (also on a run
\* resumed after its deadline), the guard ends the run and the termination
\* is eventually surfaced: summary screen or return to the dashboard.
C5_DeadlineSurfaces == Overdue ~> Surfaced

C5_Witness ==
    /\ hist.entries = 2 /\ page.mounted /\ page.openingQuestion = 0
    /\ page.elapsedTime >= interview.duration_minutes * 60
    /\ hist.guardEnds >= 1 /\ page.summary # 0

\* C6: during one visit the duration guard calls endRun at most once for the
\* run, however many timer ticks follow the deadline.
C6_GuardEndsOnce == hist.guardEnds <= 1

TerminalTurns(r) == {i \in DOMAIN turns : turns[i].run = r /\ turns[i].user = RUN_ENDED}

\* C7: ending a run is idempotent: a run has at most one terminal turn, and
\* every successful answer to an end request carries the summary stored in
\* that turn, so a second call returns what the first returned.
C7_EndIdempotent ==
    /\ \A r \in RunIds : Cardinality(TerminalTurns(r)) <= 1
    /\ \A m \in InFlight("end") :
          m.ok => Terminated(m.run) /\ m.val = TerminalTurn(m.run).feedback

C7_Witness == \E m \in InFlight("end") : m.ok /\ m.val # 0 /\ CopiesIn(m, net) >= 2

C9_NoTerminalEntry ==
    ChatShown => \A k \in DOMAIN messages : \A i \in DOMAIN turns :
                    turns[i].user = RUN_ENDED => messages[k].id # turns[i].id

\* C10: entering an interview whose latest turn is RUN_ENDED starts a new
\* run: the run the page adopts as current is none of the runs that existed
\* when the page was entered.
C10_AdoptsNewRun ==
    (page.mounted /\ page.started /\ hist.latestAtEntry = RUN_ENDED)
        => page.sessionRunId \notin hist.runsAtEntry

\* The page handles the backend's failure answer m to one of its requests.
HandlesFailure(m) ==
    /\ m.stage = "resp" /\ ~m.ok
    /\ ReceiveStart(m) \/ ReceiveSend(m) \/ ReceiveEnd(m)

\* C11: when a typed answer's submission has failed, no turn is appended, the
\* current run id and the transcript are as before, and the typed text is
\* still in the input for a retry.
C11_FailedAnswerKept ==
    [][\A m \in BagToSet(net) :
          (m.kind = "send" /\ m.text \in scope.typed /\ HandlesFailure(m)) =>
             /\ turns' = turns
             /\ page'.sessionRunId = page.sessionRunId
             /\ messages' = messages
             /\ page'.userMessage = m.text]_vars

\* The answers the backend has accepted for run r and not yet answered.
Accepted(b, r) == Count(b, {m \in DOMAIN b : m.kind = "send" /\ m.stage = "proc" /\ m.run = r})

\* A submitAnswer begins on run r in this step.
Begins(r) == Accepted(net', r) > Accepted(net, r)

\* C12: once a run has its terminal RUN_ENDED turn no turn is appended to it
\* and no submitAnswer begins on it, whoever ended it.
C12_NothingAfterEnd ==
    [][/\ turns' # turns => ~Terminated(turns'[Len(turns')].run)
       /\ \A r \in RunIds : Begins(r) => ~Terminated(r)]_vars

C12_Witness ==
    /\ hist.guardEnds >= 1
    /\ \E m \in SubmitsInFlight :
          m.stage = "resp" /\ ~m.ok /\ m.run # 0 /\ Terminated(m.run)

\* The active runs: those that take turns.
ActiveRuns == {r \in RunIds : Appendable(r)}

StartFails ==
    \E m \in BagToSet(net') :
        /\ m.kind = "start" /\ m.stage = "resp" /\ ~m.ok
        /\ CopiesIn(m, net') > CopiesIn(m, net)

\* C14: a start that fails persists neither a run nor a turn (every run has
\* its opening turn, a failed start adds nothing), and the page adopts
\* nothing from it: started, sessionRunId and openingQuestion stay as they were.
C14_FailedStartAtomic ==
    [][/\ \A r \in RunIds : ListByRun(r)[1].user = RUN_STARTED
       /\ StartFails => turns' = turns
       /\ \A m \in BagToSet(net) :
             (m.kind = "start" /\ HandlesFailure(m)) =>
                /\ page'.started = page.started
                /\ page'.sessionRunId = page.sessionRunId
                /\ page'.openingQuestion = page.openingQuestion]_vars

C14_Witness ==
    /\ page.mounted /\ hist.starts = 2 /\ turns = <<>>
    /\ ~page.started /\ page.sessionRunId = 0 /\ page.openingQuestion = 0

\* C15: a failed start, submitAnswer or end request is terminal for that
\* request: handling its failure sends no request, so the requests under
\* way become fewer.
C15_FailureIsTerminal ==
    [][\A m \in BagToSet(net) :
          HandlesFailure(m) => BagCardinality(net') < BagCardinality(net)]_vars

Sentinels == {RUN_STARTED, RUN_ENDED}

\* C16: no answer a candidate submits (typed or code) is sent with, or stored
\* under, a candidate-message equal to a sentinel: every submitAnswer request
\* carries another text, and a turn with a sentinel message is a run's start
\* turn or its terminal turn, never an answer paired with a next question.
C16_NoSentinelAnswer ==
    /\ \A m \in BagToSet(net) : m.kind = "send" => m.text \notin Sentinels
    /\ \A i \in DOMAIN turns :
          turns[i].user \in Sentinels =>
             turns[i].ai \in {0, OpeningQuestionOf(turns[i].run)}

HistoryHasStart == TimerRuns(page) /\ HasStartSession(Sessions(page, sessionsQ))

\* C17: whenever the loaded history of the current run contains the
\* RUN_STARTED turn, the elapsed time shown is the time since that turn's
\* timestamp (the one the turn store holds), whenever the page was entered:
\* leaving and re-entering neither resets nor shortens it.
C17_ElapsedSinceRunStart ==
    /\ HistoryHasStart =>
          /\ StartSession(Sessions(page, sessionsQ)).ts = StartedAt(page.sessionRunId)
          /\ page.elapsedTime = (now - StartedAt(page.sessionRunId)) \div 1000

C17_Witness ==
    /\ HistoryHasStart
    /\ hist.entries = 2
    /\ page.sessionRunId \in hist.runsAtEntry
    /\ page.elapsedTime > 0

EndedWithoutSummary == {m \in InFlight("end") : m.stage = "resp" /\ m.ok /\ m.val = 0}

\* C19: when end succeeds without a summary the run is terminated all the
\* same, and handling the response tells the user that the interview ended
\* (the success toast, then the dashboard) instead of reporting an error,
\* whether the guard or the user asked for the end.
C19_EndWithoutSummary ==
    [][\A m \in EndedWithoutSummary :
          /\ Terminated(m.run)
          /\ ReceiveEnd(m) => (hist'.endToast = EndedToast /\ ~page'.mounted)]_vars

C19_Witness ==
    /\ ~page.mounted /\ hist.endToast = EndedToast /\ hist.guardEnds >= 1
    /\ \E r \in RunIds : Terminated(r) /\ TerminalTurn(r).feedback = 0

\* The run whose start response the page has handled, if any.
StartedHere(r) == page.mounted /\ page.openingQuestion = OpeningQuestionOf(r)

\* C20: the transcript and the timer are fed only by turns of the current
\* session run: the history shown carries the page's sessionRunId, and once
\* the page has started a new run no turn of an earlier run of the interview
\* is in the history it shows.
C20_OnlyCurrentRun ==
    LET s == Sessions(page, sessionsQ)
    IN  /\ \A i \in DOMAIN s : s[i].run = page.sessionRunId
        /\ \A r \in RunIds : StartedHere(r) => \A i \in DOMAIN s : s[i].run >= r

\* A create or update request of the form is under way or was answered.
Submitted == form.saving \/ form.sent # 0

\* C21: every create or update request the form issues carries a duration
\* between 15 and 60 minutes, whatever was entered in the duration field
\* before (an empty or non-numeric entry counts as 30), and so does the
\* interview the backend keeps after it.
C21_DurationInRange ==
    /\ Submitted => (MinDuration <= form.sent /\ form.sent <= MaxDuration)
    /\ MinDuration <= interview.duration_minutes
    /\ interview.duration_minutes <= MaxDuration

C21_Witness ==
    /\ form.edit /\ form.saving
    /\ form.sent = DurationFallback
    /\ interview.duration_minutes # DurationFallback

\* C22: a submitAnswer whose generation call meets transient upstream errors
\* is retried a bounded number of times (never more than the policy allows,
\* one more call per retry); every failed submitAnswer of the page, the one
\* whose retries are exhausted included, is answered with a failure, and
\* handling it reports the failure to the user and ends the pending state.
C22_BoundedRetryThenError ==
    [][/\ \A m \in BagToSet(net') : m.tries <= MaxRetries
       /\ \A m \in SubmitsInFlight :
             (m.stage = "resp" /\ ~m.ok /\ ReceiveSend(m)) =>
                /\ scope.retries > 0 => hist'.sendError
                /\ m.cur => ~page'.sendPending
                /\ CopiesIn(m, net') < CopiesIn(m, net)]_vars

C22_Witness ==
    /\ page.mounted /\ page.sendPending /\ hist.sendError
    /\ \E m \in SubmitsInFlight :
          m.stage = "resp" /\ ~m.ok /\ m.cur /\ m.tries = MaxRetries

\* The page has come to rest: its run is established, its history is loaded
\* and nothing it asked for is still under way.
AtRest ==
    /\ page.mounted /\ page.started /\ page.sessionRunId # 0 /\ page.summary = 0
    /\ ~page.startPending /\ ~page.sendPending
    /\ ~latestQ.fetching
    /\ sessionsQ[page.sessionRunId].loaded /\ ~sessionsQ[page.sessionRunId].fetching
    /\ \A m \in BagToSet(net) : m.orphan

\* The interview's latest turn, when the page was entered, was an answer
\* with its next question (on a run that is therefore not ended).
AnswerPersistedAtEntry == hist.latestAtEntry \in {TypedAnswer, CodeAnswer}

\* C23: an answer whose submitAnswer was under way when the client left is
\* persisted, and the client sees it on its next entry: once the re-entered
\* page has resumed and loaded its history, the transcript holds the
\* persisted answer.
C23_SeesPersistedTurn ==
    (hist.entries >= 2 /\ AnswerPersistedAtEntry /\ AtRest) =>
        \E k \in DOMAIN messages :
            messages[k].role = "user" /\ messages[k].content = hist.latestAtEntry

\* C24: the dashboard ensures that the user exists only once: per mount at
\* most one call of the current-user endpoint succeeds, no such call is
\* issued after one has succeeded, and no state is updated after the unmount.
C24_InitializesOnce ==
    /\ dash.succeeded <= 1
    /\ dash.late = 0
    /\ dash.stale = 0

\* The latest-session lookup has completed (now, or on an earlier visit
\* whose answer is still cached).
LookupDone == page.mounted /\ latestQ.status # "none"

\* C25: once the latest-session lookup has completed the page leaves the
\* not-started state, whatever the latest turn is: it has resumed a run or
\* has a start request under way.
C25_LeavesNotStarted == LookupDone => (page.started \/ page.startPending)

\* The entries of the visible transcript that show an opening question.
OpeningQuestions == {<<OpeningQuestionOf(r)>> : r \in 1..MaxRuns}
OpeningEntries ==
    {k \in DOMAIN messages : messages[k].role = "ai" /\ messages[k].content \in OpeningQuestions}

HistoryLoaded ==
    /\ page.mounted /\ page.sessionRunId # 0
    /\ sessionsQ[page.sessionRunId].loaded

\* C26: the opening question is in the visible transcript at most once, from
\* the start response while the history is empty or from the RUN_STARTED
\* turn, never from both; once the run's history has loaded it is there
\* exactly once, as the first entry, and comes from the RUN_STARTED turn.
C26_OpeningOnce ==
    /\ Cardinality(OpeningEntries) <= 1
    /\ HistoryLoaded =>
          /\ OpeningEntries = {1}
          /\ messages[1].part = ""
          /\ messages[1].content = <<OpeningQuestionOf(page.sessionRunId)>>

C26_Witness ==
    /\ HistoryLoaded /\ page.openingQuestion = OpeningQuestionOf(page.sessionRunId)
    /\ Len(messages) = 3

\* C27: no sendMessage request is issued before a session run is established
\* on the page: whenever the chat form or the code editor sends an answer,
\* started is true and sessionRunId is set.
C27_SendsOnlyOnARun ==
    [][(handleSendMessage \/ handleCodeSubmit) =>
          (page.started /\ page.sessionRunId # 0)]_vars

JobDescriptionRequests == {"jd-file", "jd-text"}

\* C28: the form never holds the job description both as a selected file and
\* as non-empty pasted text, and one submission issues at most one
\* job-description request (the upload or the text processing).
C28_OneJobDescription ==
    /\ ~(form.jobDescriptionFile /\ form.jobDescriptionText # "")
    /\ Cardinality(form.issued \cap JobDescriptionRequests) <= 1

C28_Witness ==
    /\ form.shown /\ form.jobDescriptionFile /\ form.jobDescriptionText = ""
    /\ "jd-text" \in form.issued

\* C29: the form issues document requests only after its create or update
\* request has succeeded (none while it is under way, none after it failed),
\* and the success notification with the onSuccess callback or navigation
\* happens only after every document request issued has succeeded.
C29_DocumentsAfterSave ==
    /\ form.saving => (form.issued = {} /\ ~form.notified)
    /\ form.issued # {} => form.saved
    /\ form.docs \subseteq form.issued /\ form.docsOk \subseteq form.issued
    /\ form.notified => (form.saved /\ form.docs = {} /\ form.docsOk = form.issued)

C29_Witness ==
    /\ form.notified /\ ~form.shown
    /\ form.docsOk = {"jd-file", "cv"}

\* C30: every completed end attempt leaves the live interview view: with a
\* summary the page shows the summary screen and no chat; without one, and
\* after a failed end request, it returns to the dashboard and no summary is
\* set.  The chat view is never kept.
C30_EndLeavesChat ==
    [][\A m \in InFlight("end") :
          ReceiveEnd(m) =>
             /\ ~(page'.mounted /\ page'.summary = 0)
             /\ IF m.ok /\ m.val # 0
                THEN page'.mounted /\ page'.summary = m.val
                ELSE ~page'.mounted /\ page'.summary = 0]_vars

C30_Witness ==
    /\ page.mounted /\ page.summary = SummaryOf(page.sessionRunId)
    /\ Terminated(page.sessionRunId)
    /\ hist.endToast = SummaryToast /\ hist.guardEnds = 0

====
